---------------------------- MODULE Spec2Model ----------------------------
(***************************************************************************)
(* Model of the EthernetParameter value types IPv4Address (version 0.4)    *)
(* and IPv6Address (version 0.2).                                          *)
(*                                                                         *)
(* A text is a sequence of one-character strings; a C string is such a     *)
(* sequence followed by the terminator NUL, which CharAt yields at index   *)
(* Len(s) + 1.  A byte buffer is a sequence of numbers in 0..255.          *)
(* An object is declared once, by one of its constructors: its life is     *)
(* "undeclared" before, and "alive" after, or "thrown" when the            *)
(* constructor threw, which leaves no object behind.                       *)
(***************************************************************************)
EXTENDS Integers, Sequences, FiniteSets, TLC

VARIABLES
    endian,   \* byte order of a uint16_t in memory on the build's target
    ptrSize,  \* sizeof(const uint8_t *) on the build's target
    str,      \* the text argument of the string constructors
    bin,      \* the byte vector / pointed-to buffer argument of the binary operations
    v6,       \* the IPv6Address objects: v6[o].g is _ipv6Address
    v4,       \* the IPv4Address objects: v4[o].mem is _octets followed by the bytes behind it
    res       \* what the last operation returned or threw

vars == <<endian, ptrSize, str, bin, v6, v4, res>>

-----------------------------------------------------------------------------
(* Program constants *)

IPV6_ADDRESS_BYTE_LENGTH == 16
IPV6_ADDRESS_GROUPS_NUMBER == 8
IP_ADDRESS_OCTETS == 4
IP_ADDRESS_MAX_LENGTH == 15
UINT8_MOD == 256       \* uint8_t arithmetic is modulo 2^8
UINT16_MOD == 65536    \* uint16_t arithmetic is modulo 2^16
INT_MAX == 2147483647  \* largest int, the range of std::stoi

NUL == "NUL"           \* the terminator '\0' of a C string
ASCII_COLON == ":"
DOT == "."

Objs == {"a", "b"}

-----------------------------------------------------------------------------
(* Characters *)

DecDigits == <<"0", "1", "2", "3", "4", "5", "6", "7", "8", "9">>
LowerAF == <<"a", "b", "c", "d", "e", "f">>
UpperAF == <<"A", "B", "C", "D", "E", "F">>

Range(s) == {s[i] : i \in 1..Len(s)}

\* c - base, for c inside the run of consecutive characters chars
Offset(chars, c) == (CHOOSE i \in 1..Len(chars) : chars[i] = c) - 1

\* *token for a token that is i - 1 characters past the start of the C string s
CharAt(s, i) == IF i <= Len(s) THEN s[i] ELSE NUL

\* [i \in 1..n |-> c]: the character c repeated n times
Rep(c, n) == [i \in 1..n |-> c]

-----------------------------------------------------------------------------
(* IPv6Address *)

ZeroGroups == [i \in 1..IPV6_ADDRESS_GROUPS_NUMBER |-> 0]

\* uint16_t _ipv6Address[IPV6_ADDRESS_GROUPS_NUMBER]{}
Undeclared6 == [life |-> "undeclared", g |-> ZeroGroups]
Thrown6 == [life |-> "thrown", g |-> ZeroGroups]
Alive6(g) == [life |-> "alive", g |-> g]

\* HexDigitValue with the uppercase branch lacking its + 10
HexDigitValue_UpperNoTen(c) ==
    IF c \in Range(DecDigits) THEN Offset(DecDigits, c)
    ELSE IF c \in Range(LowerAF) THEN Offset(LowerAF, c) + 10
    ELSE IF c \in Range(UpperAF) THEN Offset(UpperAF, c)
    ELSE -1

\* the three branches of ParseIpV6 that classify a character; -1: the throw
HexDigitValue(c) ==
    IF c \in Range(DecDigits) THEN Offset(DecDigits, c)
    ELSE IF c \in Range(LowerAF) THEN Offset(LowerAF, c) + 10
    ELSE IF c \in Range(UpperAF) THEN Offset(UpperAF, c) + 10
    ELSE -1

\* where the inner while loop of ParseIpV6 stops if nothing throws: the first
\* index at or after token that holds ':' or NUL
GroupEnd(s, token) ==
    LET stops == {i \in token..(Len(s) + 1) : CharAt(s, i) \in {NUL, ASCII_COLON}}
    IN  CHOOSE i \in stops : \A j \in stops : i <= j

\* the body of the inner while loop on the character c; st.err: it has thrown
ScanStep(st, c) ==
    IF st.err THEN st
    ELSE IF HexDigitValue(c) < 0 THEN [st EXCEPT !.err = TRUE]
    ELSE [err |-> FALSE, token |-> st.token + 1,
          value |-> ((st.value * 16) % UINT16_MOD) + HexDigitValue(c),
          digits |-> (st.digits + 1) % UINT8_MOD]

\* the loop body applied to the characters lo..hi-1 of s in order, from state st
\* (the range is halved to keep the evaluation shallow; the order is the loop's)
RECURSIVE ScanChars(_, _, _, _)
ScanChars(s, lo, hi, st) ==
    IF lo >= hi THEN st
    ELSE IF hi = lo + 1 THEN ScanStep(st, s[lo])
    ELSE LET mid == (lo + hi) \div 2
             left == ScanChars(s, lo, mid, st)
         IN  IF left.err THEN left ELSE ScanChars(s, mid, hi, left)

\* the inner while loop of ParseIpV6: one group, from token up to ':' or NUL
ScanGroup(s, token, value, digits) ==
    ScanChars(s, token, GroupEnd(s, token),
              [err |-> FALSE, token |-> token, value |-> value, digits |-> digits])

\* the group length test that follows the inner loop
BadDigitCount(digits) == digits = 0 \/ digits > 4

\* the test after the outer loop of ParseIpV6
ParseEnd(s, token, groupIndex, g) ==
    [err |-> (groupIndex # IPV6_ADDRESS_GROUPS_NUMBER \/ CharAt(s, token) # NUL),
     token |-> token, groupIndex |-> groupIndex, g |-> g]

\* ParseLoop with groupIndex <= IPV6_ADDRESS_GROUPS_NUMBER as the test of the
\* outer loop: a ninth group is scanned and stored behind the array
RECURSIVE ParseLoop_OneMore(_, _, _, _)
ParseLoop_OneMore(s, token, groupIndex, g) ==
    IF groupIndex <= IPV6_ADDRESS_GROUPS_NUMBER
    THEN LET r == ScanGroup(s, token, 0, 0)
         IN  IF r.err \/ BadDigitCount(r.digits)
             THEN [err |-> TRUE, token |-> r.token, groupIndex |-> groupIndex, g |-> g]
             ELSE LET g2 == IF groupIndex < IPV6_ADDRESS_GROUPS_NUMBER
                            THEN [g EXCEPT ![groupIndex + 1] = r.value]
                            ELSE g
                  IN  IF CharAt(s, r.token) = NUL
                      THEN ParseEnd(s, r.token, groupIndex + 1, g2)
                      ELSE ParseLoop_OneMore(s, r.token + 1, groupIndex + 1, g2)
    ELSE ParseEnd(s, token, groupIndex, g)

\* the outer while loop of ParseIpV6, entered with the given locals
RECURSIVE ParseLoop(_, _, _, _)
ParseLoop(s, token, groupIndex, g) ==
    IF groupIndex < IPV6_ADDRESS_GROUPS_NUMBER
    THEN LET r == ScanGroup(s, token, 0, 0)
         IN  IF r.err \/ BadDigitCount(r.digits)
             THEN [err |-> TRUE, token |-> r.token, groupIndex |-> groupIndex, g |-> g]
             ELSE LET g2 == [g EXCEPT ![groupIndex + 1] = r.value]
                  IN  IF CharAt(s, r.token) = NUL
                      THEN ParseEnd(s, r.token, groupIndex + 1, g2)
                      ELSE ParseLoop(s, r.token + 1, groupIndex + 1, g2)
    ELSE ParseEnd(s, token, groupIndex, g)

\* void IPv6Address::ParseIpV6(const char *cAddressCStr) on a fresh object
ParseIpV6(s) == ParseLoop(s, 1, 0, ZeroGroups)

\* HexText writing the digits ten to fifteen as capitals (std::uppercase)
RECURSIVE HexText_Upper(_)
HexText_Upper(n) ==
    LET d == IF n % 16 < 10 THEN DecDigits[(n % 16) + 1] ELSE UpperAF[(n % 16) - 9]
    IN  IF n < 16 THEN <<d>> ELSE HexText_Upper(n \div 16) \o <<d>>

\* lowercase hexadecimal digits of n, most significant first (std::hex)
RECURSIVE HexText(_)
HexText(n) ==
    LET d == IF n % 16 < 10 THEN DecDigits[(n % 16) + 1] ELSE LowerAF[(n % 16) - 9]
    IN  IF n < 16 THEN <<d>> ELSE HexText(n \div 16) \o <<d>>

\* SetW without the fill: the digits as they are
SetW_NoFill(t, w) == t

\* std::setw(w) with std::setfill('0'): pad on the left, never cut
RECURSIVE SetW(_, _)
SetW(t, w) == IF Len(t) < w THEN SetW(<<"0">> \o t, w) ELSE t

\* the loop of IPv6Address::ToString, from group i on
RECURSIVE ToString6From(_, _)
ToString6From(g, i) ==
    IF i >= IPV6_ADDRESS_GROUPS_NUMBER THEN <<>>
    ELSE SetW(HexText(g[i + 1]), 4)
         \o (IF i < IPV6_ADDRESS_GROUPS_NUMBER - 1 THEN <<ASCII_COLON>> ELSE <<>>)
         \o ToString6From(g, i + 1)

ToString6(g) == ToString6From(g, 0)

\* memcpy(&group, bytes, sizeof(group)): the uint16_t whose two bytes in memory
\* are b0, b1, on a target of byte order e
GroupOfBytes(b0, b1, e) == IF e = "little" THEN b0 + 256 * b1 ELSE 256 * b0 + b1

\* memcpy(bytes, &group, sizeof(bytes)): the two bytes of group in memory
BytesOfGroup(group, e) ==
    IF e = "little" THEN <<group % 256, group \div 256>> ELSE <<group \div 256, group % 256>>

\* memcpy(_ipv6Address, data, IPV6_ADDRESS_BYTE_LENGTH)
MemcpyGroups(data, e) ==
    [i \in 1..IPV6_ADDRESS_GROUPS_NUMBER |-> GroupOfBytes(data[2 * i - 1], data[2 * i], e)]

\* the loop of IPv6Address::SetFromBinary(const uint8_t *), from group i on
RECURSIVE SetFromBinaryLoop(_, _, _, _)
SetFromBinaryLoop(g, data, i, e) ==
    IF i >= IPV6_ADDRESS_GROUPS_NUMBER THEN g
    ELSE SetFromBinaryLoop([g EXCEPT ![i + 1] = GroupOfBytes(data[2 * i + 1], data[2 * i + 2], e)],
                           data, i + 1, e)

\* the loop of IPv6Address::ToBinary(uint8_t *): the bytes written through
\* destDataPtr, from group i on
RECURSIVE ToBinaryLoop(_, _, _)
ToBinaryLoop(g, i, e) ==
    IF i >= IPV6_ADDRESS_GROUPS_NUMBER THEN <<>>
    ELSE BytesOfGroup(g[i + 1], e) \o ToBinaryLoop(g, i + 1, e)

\* sizeof(cBinaryContent) / sizeof(uint8_t) == IPV6_ADDRESS_BYTE_LENGTH, for a
\* pointer cBinaryContent of size sizeofPtr
PointerSizeIsAddressLength(sizeofPtr) == sizeofPtr = IPV6_ADDRESS_BYTE_LENGTH


-----------------------------------------------------------------------------
(* IPv4Address *)

\* uint8_t _octets[IP_ADDRESS_OCTETS]{} is mem[1..4]; mem[5..15] are the bytes
\* that lie behind the array in memory and do not belong to it
Octets(mem) == SubSeq(mem, 1, IP_ADDRESS_OCTETS)

\* conversion of an int to uint8_t
ToUint8(n) == n % UINT8_MOD

\* the characters std::isspace accepts
Spaces == {" ", "\t", "\n", "\f", "\r"}

\* index of the first character of t at or after i that is not white space
RECURSIVE SkipSpaces(_, _)
SkipSpaces(t, i) ==
    IF i <= Len(t) /\ t[i] \in Spaces THEN SkipSpaces(t, i + 1) ELSE i

\* the digit loop of the conversion: val is the value so far (negative after '-'),
\* any says whether a digit was seen; the conversion stops at the first non-digit
RECURSIVE StoiDigits(_, _, _, _, _)
StoiDigits(t, i, neg, val, any) ==
    IF i > Len(t) \/ t[i] \notin Range(DecDigits)
    THEN [err |-> IF any THEN "none" ELSE "invalid_argument", val |-> val]
    ELSE LET d == Offset(DecDigits, t[i])
             cut == INT_MAX \div 10
             over == IF neg THEN val < -cut \/ (val = -cut /\ d > (INT_MAX % 10) + 1)
                     ELSE val > cut \/ (val = cut /\ d > INT_MAX % 10)
         IN  IF over THEN [err |-> "out_of_range", val |-> 0]
             ELSE StoiDigits(t, i + 1, neg, IF neg THEN val * 10 - d ELSE val * 10 + d, TRUE)

\* std::stoi(t): white space, an optional sign, decimal digits; what follows the
\* digits is ignored; invalid_argument without a digit, out_of_range beyond int
Stoi(t) ==
    LET i == SkipSpaces(t, 1)
        signed == i <= Len(t) /\ t[i] \in {"+", "-"}
        neg == signed /\ t[i] = "-"
    IN  StoiDigits(t, IF signed THEN i + 1 ELSE i, neg, 0, FALSE)

\* the range-for loop of IPv4Address(const std::string &) from character i on, and
\* the store after it; stores lists the <<index, value>> written into _octets
RECURSIVE ScanOctets(_, _, _, _, _)
ScanOctets(s, i, byteStr, byteCount, stores) ==
    IF i <= Len(s) /\ s[i] # DOT
    THEN ScanOctets(s, i + 1, Append(byteStr, s[i]), byteCount, stores)
    ELSE LET v == Stoi(byteStr)
             stored == Append(stores, <<byteCount, ToUint8(v.val)>>)
         IN  IF v.err # "none" THEN [err |-> v.err, stores |-> stores]
             ELSE IF i > Len(s) THEN [err |-> "none", stores |-> stored]
             ELSE ScanOctets(s, i + 1, <<>>, (byteCount + 1) % UINT8_MOD, stored)

\* ParseIpV4 without the throw for the empty string
ParseIpV4_EmptyAccepted(s) ==
    IF s = <<>> THEN [err |-> "none", stores |-> <<>>]
    ELSE ScanOctets(s, 1, <<>>, 0, <<>>)

\* the body of IPv4Address::IPv4Address(const std::string &cAddressStr)
ParseIpV4(s) ==
    IF s = <<>> THEN [err |-> "invalid_argument", stores |-> <<>>]
    ELSE ScanOctets(s, 1, <<>>, 0, <<>>)

\* memory after the stores _octets[index] = value, in order
RECURSIVE ApplyStores(_, _)
ApplyStores(mem, stores) ==
    IF stores = <<>> THEN mem
    ELSE ApplyStores([mem EXCEPT ![stores[1][1] + 1] = stores[1][2]], Tail(stores))

\* some store went behind the 4 octets
StoresOutside(stores) == \E k \in 1..Len(stores) : stores[k][1] >= IP_ADDRESS_OCTETS

\* the value of the bytes that lie behind the _octets of each object before the
\* program touches them
Behind == [o \in Objs |-> IF o = "a" THEN 170 ELSE 187]

\* FreshMem of an array declared without the initializer {}: the octets hold
\* what the memory held
FreshMem_Uninitialized(o) == [i \in 1..IP_ADDRESS_MAX_LENGTH |-> Behind[o]]

\* the memory of a new object: uint8_t _octets[IP_ADDRESS_OCTETS]{} and the bytes
\* behind it
FreshMem(o) ==
    [i \in 1..IP_ADDRESS_MAX_LENGTH |-> IF i <= IP_ADDRESS_OCTETS THEN 0 ELSE Behind[o]]

Undeclared4(o) == [life |-> "undeclared", mem |-> FreshMem(o)]
Thrown4(o) == [life |-> "thrown", mem |-> FreshMem(o)]
Alive4(mem) == [life |-> "alive", mem |-> mem]

\* DecText that writes no digit at all for 0
RECURSIVE DecText_ZeroEmpty(_)
DecText_ZeroEmpty(n) ==
    IF n = 0 THEN <<>> ELSE DecText_ZeroEmpty(n \div 10) \o <<DecDigits[(n % 10) + 1]>>

\* decimal digits of n >= 0, most significant first (std::to_string)
RECURSIVE DecText(_)
DecText(n) ==
    IF n < 10 THEN <<DecDigits[n + 1]>> ELSE DecText(n \div 10) \o <<DecDigits[(n % 10) + 1]>>

\* ToString4From with the '.' written after every octet, the last one included
RECURSIVE ToString4From_DotAlways(_, _)
ToString4From_DotAlways(mem, i) ==
    IF i >= IP_ADDRESS_OCTETS THEN <<>>
    ELSE DecText(mem[i + 1]) \o <<DOT>> \o ToString4From_DotAlways(mem, i + 1)

\* the loop of IPv4Address::ToString, from octet i on
RECURSIVE ToString4From(_, _)
ToString4From(mem, i) ==
    IF i >= IP_ADDRESS_OCTETS THEN <<>>
    ELSE DecText(mem[i + 1]) \o (IF i # 3 THEN <<DOT>> ELSE <<>>) \o ToString4From(mem, i + 1)

ToString4(mem) == ToString4From(mem, 0)

-----------------------------------------------------------------------------
(* Outcome of an operation op on object o: the exception thrown ("none"    *)
(* when it returns, "abort" when the process was aborted), the other        *)
(* operand, the text returned, the bytes returned or written to the         *)
(* destination, and how many bytes it read and wrote outside the array or   *)
(* vector it was given; the index and the octet value it was called with or *)
(* returned, and the truth value a comparison returned.                     *)

Result(op, o, err) ==
    [op |-> op, o |-> o, err |-> err, rhs |-> "", text |-> <<>>, bytes |-> <<>>,
     readOut |-> 0, writeOut |-> 0, index |-> 0, value |-> 0, truth |-> FALSE]

NoResult == Result("none", "a", "none")

\* the process has not been aborted
Running == res.err # "abort"

-----------------------------------------------------------------------------
(* IPv6Address operations on texts *)

\* IPv6Address::IPv6Address(const std::string &cAddressStr)
Ctor6Str(o) ==
    LET r == ParseIpV6(str)
        thrown == IF str = <<>> THEN TRUE ELSE r.err
    IN  /\ Running
        /\ v6[o].life = "undeclared"
        /\ v6' = [v6 EXCEPT ![o] = IF thrown THEN Thrown6 ELSE Alive6(r.g)]
        /\ res' = Result("IPv6Address(string)", o,
                         IF thrown THEN "invalid_argument" ELSE "none")
        /\ UNCHANGED <<endian, ptrSize, str, bin, v4>>

\* strlen(s): the number of characters before the first NUL
StrLen(s) ==
    LET ends == {i \in 1..(Len(s) + 1) : CharAt(s, i) = NUL}
    IN  (CHOOSE i \in ends : \A j \in ends : i <= j) - 1

\* IPv6Address::IPv6Address(const char *cAddressCStr); isNull: the argument is
\* nullptr, and otherwise it points to the characters of str, which a NUL ends
Ctor6CStr(o, isNull) ==
    LET r == ParseIpV6(str)
        thrown == IF ~isNull /\ StrLen(str) > 0 THEN r.err ELSE TRUE
    IN  /\ Running
        /\ v6[o].life = "undeclared"
        /\ v6' = [v6 EXCEPT ![o] = IF thrown THEN Thrown6 ELSE Alive6(r.g)]
        /\ res' = Result(IF isNull THEN "IPv6Address(nullptr)" ELSE "IPv6Address(char*)", o,
                         IF thrown THEN "invalid_argument" ELSE "none")
        /\ UNCHANGED <<endian, ptrSize, str, bin, v4>>

\* std::string IPv6Address::ToString() const
ToString6Op(o) ==
    /\ Running
    /\ v6[o].life = "alive"
    /\ res' = [Result("ToString6", o, "none") EXCEPT !.text = ToString6(v6[o].g)]
    /\ UNCHANGED <<endian, ptrSize, str, bin, v6, v4>>

-----------------------------------------------------------------------------
(* IPv6Address: the other constructors and the binary operations.  A        *)
(* non-null pointer argument points to the first byte of bin.               *)

\* IPv6Address::IPv6Address()
Ctor6Default(o) ==
    /\ Running
    /\ v6[o].life = "undeclared"
    /\ v6' = [v6 EXCEPT ![o] = Alive6(ZeroGroups)]
    /\ res' = Result("IPv6Address()", o, "none")
    /\ UNCHANGED <<endian, ptrSize, str, bin, v4>>

\* IPv6Address::IPv6Address(const uint8_t *cBinaryContent)
Ctor6Ptr(o, isNull) ==
    LET copies == ~isNull /\ PointerSizeIsAddressLength(ptrSize)
    IN  /\ Running
        /\ v6[o].life = "undeclared"
        /\ isNull \/ Len(bin) >= IPV6_ADDRESS_BYTE_LENGTH
        /\ v6' = [v6 EXCEPT ![o] = IF copies THEN Alive6(MemcpyGroups(bin, endian))
                                   ELSE Thrown6]
        /\ res' = Result(IF isNull THEN "IPv6Address(nullptr)" ELSE "IPv6Address(ptr)", o,
                         IF copies THEN "none" ELSE "invalid_argument")
        /\ UNCHANGED <<endian, ptrSize, str, bin, v4>>

\* IPv6Address::IPv6Address(const std::vector<uint8_t> &cBinaryContent)
Ctor6Vec(o) ==
    LET copies == bin # <<>> /\ Len(bin) = IPV6_ADDRESS_BYTE_LENGTH
    IN  /\ Running
        /\ v6[o].life = "undeclared"
        /\ v6' = [v6 EXCEPT ![o] = IF copies THEN Alive6(MemcpyGroups(bin, endian))
                                   ELSE Thrown6]
        /\ res' = Result("IPv6Address(vector)", o,
                         IF copies THEN "none" ELSE "invalid_argument")
        /\ UNCHANGED <<endian, ptrSize, str, bin, v4>>

\* void IPv6Address::SetFromBinary(const uint8_t *cBinaryAddress)
SetFromBinary6Ptr(o, isNull) ==
    /\ Running
    /\ v6[o].life = "alive"
    /\ isNull \/ Len(bin) >= IPV6_ADDRESS_BYTE_LENGTH
    /\ v6' = [v6 EXCEPT ![o].g = IF isNull THEN @ ELSE SetFromBinaryLoop(@, bin, 0, endian)]
    /\ res' = Result(IF isNull THEN "SetFromBinary6(nullptr)" ELSE "SetFromBinary6(ptr)", o,
                     IF isNull THEN "invalid_argument" ELSE "none")
    /\ UNCHANGED <<endian, ptrSize, str, bin, v4>>

\* SetFromBinary6Vec refusing only the vectors that are too short
SetFromBinary6Vec_AtLeast(o) ==
    LET sets == Len(bin) >= IPV6_ADDRESS_BYTE_LENGTH
    IN  /\ Running
        /\ v6[o].life = "alive"
        /\ v6' = [v6 EXCEPT ![o].g = IF sets THEN SetFromBinaryLoop(@, bin, 0, endian) ELSE @]
        /\ res' = Result("SetFromBinary6(vector)", o,
                         IF sets THEN "none" ELSE "invalid_argument")
        /\ UNCHANGED <<endian, ptrSize, str, bin, v4>>

\* void IPv6Address::SetFromBinary(const std::vector<uint8_t> &cBinaryAddress)
SetFromBinary6Vec(o) ==
    LET sets == Len(bin) = IPV6_ADDRESS_BYTE_LENGTH
    IN  /\ Running
        /\ v6[o].life = "alive"
        /\ v6' = [v6 EXCEPT ![o].g = IF sets THEN SetFromBinaryLoop(@, bin, 0, endian) ELSE @]
        /\ res' = Result("SetFromBinary6(vector)", o,
                         IF sets THEN "none" ELSE "invalid_argument")
        /\ UNCHANGED <<endian, ptrSize, str, bin, v4>>

\* ToBinary6Ptr with the test of destDataPtr inverted: it throws on every
\* pointer but the null pointer
ToBinary6Ptr_Inverted(o, isNull) ==
    /\ Running
    /\ v6[o].life = "alive"
    /\ res' = IF isNull THEN Result("ToBinary6(nullptr)", o, "none")
              ELSE Result("ToBinary6(ptr)", o, "invalid_argument")
    /\ UNCHANGED <<endian, ptrSize, str, bin, v6, v4>>

\* void IPv6Address::ToBinary(uint8_t *destDataPtr) const; res.bytes: what it
\* wrote through a non-null destDataPtr
ToBinary6Ptr(o, isNull) ==
    /\ Running
    /\ v6[o].life = "alive"
    /\ res' = IF isNull THEN Result("ToBinary6(nullptr)", o, "invalid_argument")
              ELSE [Result("ToBinary6(ptr)", o, "none") EXCEPT
                        !.bytes = ToBinaryLoop(v6[o].g, 0, endian)]
    /\ UNCHANGED <<endian, ptrSize, str, bin, v6, v4>>

\* std::vector<uint8_t> IPv6Address::ToBinary() const; res.bytes: the elements of
\* the vector returned.  The vector is empty with room reserved for 16 bytes, and
\* ToBinary(data()) writes its 16 bytes into that room, behind the end of the
\* vector: undefined behaviour, on which the build either leaves the vector empty
\* as it was or aborts the process.
ToBinary6Vec(o) ==
    /\ Running
    /\ v6[o].life = "alive"
    /\ \/ res' = [Result("ToBinary6()", o, "none") EXCEPT
                      !.bytes = <<>>,
                      !.writeOut = Len(ToBinaryLoop(v6[o].g, 0, endian))]
       \/ res' = Result("ToBinary6()", o, "abort")
    /\ UNCHANGED <<endian, ptrSize, str, bin, v6, v4>>

\* x.SetFromBinary(y.ToBinary()): SetFromBinary(const std::vector<uint8_t> &)
\* on the vector that the call of ToBinary() just before it returned
SetFromBinary6Returned(o) ==
    LET sets == Len(res.bytes) = IPV6_ADDRESS_BYTE_LENGTH
    IN  /\ Running
        /\ res.op = "ToBinary6()" /\ res.err = "none"
        /\ v6[o].life = "alive"
        /\ v6' = [v6 EXCEPT ![o].g = IF sets THEN SetFromBinaryLoop(@, res.bytes, 0, endian)
                                     ELSE @]
        /\ res' = [Result("SetFromBinary6(ToBinary6())", o,
                          IF sets THEN "none" ELSE "invalid_argument") EXCEPT !.rhs = res.o]
        /\ UNCHANGED <<endian, ptrSize, str, bin, v4>>

\* Equal6 comparing IPV6_ADDRESS_GROUPS_NUMBER bytes, the first 4 groups, in
\* place of IPV6_ADDRESS_BYTE_LENGTH bytes
Equal6_GroupsNumber(g, h) ==
    \A i \in 1..(IPV6_ADDRESS_GROUPS_NUMBER \div 2) : g[i] = h[i]

\* bool IPv6Address::operator==(const IPv6Address &cOther) const
Equal6(g, h) == \A i \in 1..IPV6_ADDRESS_GROUPS_NUMBER : g[i] = h[i]

\* bool IPv6Address::operator!=(const IPv6Address &cAddress) const
NotEqual6(g, h) == \E i \in 1..IPV6_ADDRESS_GROUPS_NUMBER : g[i] # h[i]

\* o == p on two IPv6Address values; res.truth: what it returned
Equal6Op(o, p) ==
    /\ Running
    /\ v6[o].life = "alive" /\ v6[p].life = "alive"
    /\ res' = [Result("operator==6", o, "none") EXCEPT
                  !.rhs = p, !.truth = Equal6(v6[o].g, v6[p].g)]
    /\ UNCHANGED <<endian, ptrSize, str, bin, v6, v4>>

\* o != p on two IPv6Address values; res.truth: what it returned
NotEqual6Op(o, p) ==
    /\ Running
    /\ v6[o].life = "alive" /\ v6[p].life = "alive"
    /\ res' = [Result("operator!=6", o, "none") EXCEPT
                  !.rhs = p, !.truth = NotEqual6(v6[o].g, v6[p].g)]
    /\ UNCHANGED <<endian, ptrSize, str, bin, v6, v4>>

\* IPv6Address &IPv6Address::operator=(const IPv6Address &cAddress), as o = p:
\* a memcpy of the 16 bytes of the 8 groups unless p is o itself
Assign6(o, p) ==
    /\ Running
    /\ v6[o].life = "alive" /\ v6[p].life = "alive"
    /\ v6' = IF o # p THEN [v6 EXCEPT ![o].g = v6[p].g] ELSE v6
    /\ res' = [Result("operator=6", o, "none") EXCEPT !.rhs = p]
    /\ UNCHANGED <<endian, ptrSize, str, bin, v4>>

\* IPv6Address o(p): the copy constructor the compiler supplies, which copies
\* the member _ipv6Address
Copy6(o, p) ==
    /\ Running
    /\ v6[o].life = "undeclared" /\ v6[p].life = "alive"
    /\ v6' = [v6 EXCEPT ![o] = Alive6(v6[p].g)]
    /\ res' = [Result("IPv6Address(copy)", o, "none") EXCEPT !.rhs = p]
    /\ UNCHANGED <<endian, ptrSize, str, bin, v4>>

\* void IPv6Address::Clear()
Clear6(o) ==
    /\ Running
    /\ v6[o].life = "alive"
    /\ v6' = [v6 EXCEPT ![o].g = ZeroGroups]
    /\ res' = Result("Clear6", o, "none")
    /\ UNCHANGED <<endian, ptrSize, str, bin, v4>>

-----------------------------------------------------------------------------
(* IPv4Address operations on texts *)

\* IPv4Address::IPv4Address(const std::string &cAddressStr).  A store behind the
\* 4 octets is undefined behaviour: the build either overwrites the bytes that
\* lie there or aborts the process.
Ctor4Str(o) ==
    LET r == ParseIpV4(str)
    IN  /\ Running
        /\ v4[o].life = "undeclared"
        /\ \/ /\ v4' = [v4 EXCEPT ![o] = IF r.err # "none" THEN Thrown4(o)
                                         ELSE Alive4(ApplyStores(FreshMem(o), r.stores))]
              /\ res' = [Result("IPv4Address(string)", o, r.err) EXCEPT
                            !.writeOut = Cardinality({k \in 1..Len(r.stores) :
                                                       r.stores[k][1] >= IP_ADDRESS_OCTETS})]
           \/ /\ StoresOutside(r.stores)
              /\ v4' = [v4 EXCEPT ![o] = Thrown4(o)]
              /\ res' = Result("IPv4Address(string)", o, "abort")
        /\ UNCHANGED <<endian, ptrSize, str, bin, v6>>

\* std::string IPv4Address::ToString() const
ToString4Op(o) ==
    /\ Running
    /\ v4[o].life = "alive"
    /\ res' = [Result("ToString4", o, "none") EXCEPT !.text = ToString4(v4[o].mem)]
    /\ UNCHANGED <<endian, ptrSize, str, bin, v6, v4>>

\* IPv4Address o(p.ToString()): IPv4Address(const std::string &) on the text that
\* the call of ToString() just before it returned
Ctor4StrReturned(o) ==
    LET r == ParseIpV4(res.text)
    IN  /\ Running
        /\ res.op = "ToString4" /\ res.o # o
        /\ v4[o].life = "undeclared"
        /\ \/ /\ v4' = [v4 EXCEPT ![o] = IF r.err # "none" THEN Thrown4(o)
                                         ELSE Alive4(ApplyStores(FreshMem(o), r.stores))]
              /\ res' = [Result("IPv4Address(ToString4())", o, r.err) EXCEPT
                            !.rhs = res.o,
                            !.writeOut = Cardinality({k \in 1..Len(r.stores) :
                                                       r.stores[k][1] >= IP_ADDRESS_OCTETS})]
           \/ /\ StoresOutside(r.stores)
              /\ v4' = [v4 EXCEPT ![o] = Thrown4(o)]
              /\ res' = [Result("IPv4Address(ToString4())", o, "abort") EXCEPT !.rhs = res.o]
        /\ UNCHANGED <<endian, ptrSize, str, bin, v6>>

\* Equal4 comparing IP_ADDRESS_MAX_LENGTH bytes, as the assignment copies them
Equal4_MaxLength(mem, other) == \A i \in 1..IP_ADDRESS_MAX_LENGTH : mem[i] = other[i]

\* bool IPv4Address::operator==(const IPv4Address &cIp) const
Equal4(mem, other) == \A i \in 1..IP_ADDRESS_OCTETS : mem[i] = other[i]

\* bool IPv4Address::operator!=(const IPv4Address &cIp) const
NotEqual4(mem, other) == \E i \in 1..IP_ADDRESS_OCTETS : mem[i] # other[i]

\* o == p on two IPv4Address values; res.truth: what it returned
Equal4Op(o, p) ==
    /\ Running
    /\ v4[o].life = "alive" /\ v4[p].life = "alive"
    /\ res' = [Result("operator==4", o, "none") EXCEPT
                  !.rhs = p, !.truth = Equal4(v4[o].mem, v4[p].mem)]
    /\ UNCHANGED <<endian, ptrSize, str, bin, v6, v4>>

\* o != p on two IPv4Address values; res.truth: what it returned
NotEqual4Op(o, p) ==
    /\ Running
    /\ v4[o].life = "alive" /\ v4[p].life = "alive"
    /\ res' = [Result("operator!=4", o, "none") EXCEPT
                  !.rhs = p, !.truth = NotEqual4(v4[o].mem, v4[p].mem)]
    /\ UNCHANGED <<endian, ptrSize, str, bin, v6, v4>>

\* std::ostream &operator<<(std::ostream &os, const IPv4Address &cAddress);
\* res.text: what it wrote to os
Stream4Op(o) ==
    /\ Running
    /\ v4[o].life = "alive"
    /\ res' = [Result("operator<<4", o, "none") EXCEPT !.text = ToString4(v4[o].mem)]
    /\ UNCHANGED <<endian, ptrSize, str, bin, v6, v4>>

-----------------------------------------------------------------------------
(* IPv4Address: the other constructors, the binary operations and the       *)
(* assignment.  A non-null pointer argument points to the first byte of bin.*)

\* memcpy(_octets, data, IP_ADDRESS_OCTETS) into the memory mem
MemcpyOctets(mem, data) ==
    [i \in 1..IP_ADDRESS_MAX_LENGTH |-> IF i <= IP_ADDRESS_OCTETS THEN data[i] ELSE mem[i]]

\* the number of bytes a memcpy of n bytes touches outside an array of size bytes
Overrun(n, size) == IF n > size THEN n - size ELSE 0

\* what a read behind the end of a vector may find there
StrayBytes == {0, 221}

\* the vector data followed by the bytes that lie behind it in memory, all stray
ReadBehind(data, stray) ==
    [i \in 1..IP_ADDRESS_OCTETS |-> IF i <= Len(data) THEN data[i] ELSE stray]

\* IPv4Address::IPv4Address()
Ctor4Default(o) ==
    /\ Running
    /\ v4[o].life = "undeclared"
    /\ v4' = [v4 EXCEPT ![o] = Alive4(FreshMem(o))]
    /\ res' = Result("IPv4Address()", o, "none")
    /\ UNCHANGED <<endian, ptrSize, str, bin, v6>>

\* IPv4Address::IPv4Address(const uint8_t &cOctet1, ..., const uint8_t &cOctet4)
Ctor4Octets(o, cOctet1, cOctet2, cOctet3, cOctet4) ==
    /\ Running
    /\ v4[o].life = "undeclared"
    /\ v4' = [v4 EXCEPT ![o] = Alive4([[[[FreshMem(o) EXCEPT ![1] = cOctet1]
                                            EXCEPT ![2] = cOctet2]
                                            EXCEPT ![3] = cOctet3]
                                            EXCEPT ![4] = cOctet4])]
    /\ res' = [Result("IPv4Address(octets)", o, "none") EXCEPT
                  !.bytes = <<cOctet1, cOctet2, cOctet3, cOctet4>>]
    /\ UNCHANGED <<endian, ptrSize, str, bin, v6>>

\* SetOctet4 without the test of the index against the number of octets: the
\* store goes wherever the index points
SetOctet4_Unchecked(o, cIndex, cValue) ==
    /\ Running
    /\ v4[o].life = "alive"
    /\ cIndex < IP_ADDRESS_MAX_LENGTH
    /\ v4' = [v4 EXCEPT ![o].mem[cIndex + 1] = cValue]
    /\ res' = [Result("SetOctet", o, "none") EXCEPT !.index = cIndex, !.value = cValue]
    /\ UNCHANGED <<endian, ptrSize, str, bin, v6>>

\* SetOctet4 on octets that all the objects share, as a static member would be
SetOctet4_Shared(o, cIndex, cValue) ==
    LET stores == cIndex < IP_ADDRESS_OCTETS
    IN  /\ Running
        /\ v4[o].life = "alive"
        /\ v4' = [p \in Objs |->
                    IF stores /\ v4[p].life = "alive"
                    THEN [v4[p] EXCEPT !.mem = [@ EXCEPT ![cIndex + 1] = cValue]]
                    ELSE v4[p]]
        /\ res' = [Result("SetOctet", o, IF stores THEN "none" ELSE "out_of_range") EXCEPT
                      !.index = cIndex, !.value = cValue]
        /\ UNCHANGED <<endian, ptrSize, str, bin, v6>>

\* void IPv4Address::SetOctet(const uint8_t &cIndex, const uint8_t &cValue)
SetOctet4(o, cIndex, cValue) ==
    LET stores == cIndex < IP_ADDRESS_OCTETS
    IN  /\ Running
        /\ v4[o].life = "alive"
        /\ v4' = [v4 EXCEPT ![o].mem = IF stores THEN [@ EXCEPT ![cIndex + 1] = cValue] ELSE @]
        /\ res' = [Result("SetOctet", o, IF stores THEN "none" ELSE "out_of_range") EXCEPT
                      !.index = cIndex, !.value = cValue]
        /\ UNCHANGED <<endian, ptrSize, str, bin, v6>>

\* GetOctet4 counting the octets from 1
GetOctet4_FromOne(o, cIndex) ==
    /\ Running
    /\ v4[o].life = "alive"
    /\ res' = [Result("GetOctet", o,
                      IF cIndex < IP_ADDRESS_OCTETS THEN "none" ELSE "out_of_range") EXCEPT
                  !.index = cIndex,
                  !.value = IF cIndex < IP_ADDRESS_OCTETS /\ cIndex > 0
                            THEN v4[o].mem[cIndex] ELSE 0]
    /\ UNCHANGED <<endian, ptrSize, str, bin, v6, v4>>

\* uint8_t IPv4Address::GetOctet(const uint8_t &cIndex) const; res.value: the
\* octet returned
GetOctet4(o, cIndex) ==
    LET returns == cIndex < IP_ADDRESS_OCTETS
    IN  /\ Running
        /\ v4[o].life = "alive"
        /\ res' = [Result("GetOctet", o, IF returns THEN "none" ELSE "out_of_range") EXCEPT
                      !.index = cIndex,
                      !.value = IF returns THEN v4[o].mem[cIndex + 1] ELSE 0]
        /\ UNCHANGED <<endian, ptrSize, str, bin, v6, v4>>

\* IPv4Address::IPv4Address(const uint8_t *cData)
Ctor4Ptr(o, isNull) ==
    /\ Running
    /\ v4[o].life = "undeclared"
    /\ isNull \/ Len(bin) >= IP_ADDRESS_OCTETS
    /\ v4' = [v4 EXCEPT ![o] = IF isNull THEN Thrown4(o)
                               ELSE Alive4(MemcpyOctets(FreshMem(o), bin))]
    /\ res' = Result(IF isNull THEN "IPv4Address(nullptr)" ELSE "IPv4Address(ptr)", o,
                     IF isNull THEN "invalid_argument" ELSE "none")
    /\ UNCHANGED <<endian, ptrSize, str, bin, v6>>

\* IPv4Address::IPv4Address(const std::vector<uint8_t> &cBinaryAddress)
Ctor4Vec(o) ==
    LET copies == bin # <<>> /\ ~(Len(bin) # IP_ADDRESS_OCTETS)
    IN  /\ Running
        /\ v4[o].life = "undeclared"
        /\ v4' = [v4 EXCEPT ![o] = IF copies THEN Alive4(MemcpyOctets(FreshMem(o), bin))
                                   ELSE Thrown4(o)]
        /\ res' = Result("IPv4Address(vector)", o,
                         IF copies THEN "none" ELSE "invalid_argument")
        /\ UNCHANGED <<endian, ptrSize, str, bin, v6>>

\* void IPv4Address::SetFromBinary(const uint8_t *cBinaryAddress)
SetFromBinary4Ptr(o, isNull) ==
    /\ Running
    /\ v4[o].life = "alive"
    /\ isNull \/ Len(bin) >= IP_ADDRESS_OCTETS
    /\ v4' = [v4 EXCEPT ![o].mem = IF isNull THEN @ ELSE MemcpyOctets(@, bin)]
    /\ res' = Result(IF isNull THEN "SetFromBinary4(nullptr)" ELSE "SetFromBinary4(ptr)", o,
                     IF isNull THEN "invalid_argument" ELSE "none")
    /\ UNCHANGED <<endian, ptrSize, str, bin, v6>>

\* void IPv4Address::SetFromBinary(const std::vector<uint8_t> &cBinaryAddress).
\* Only the empty vector is refused.  From a vector of 1 to 3 bytes the memcpy
\* reads behind its end: undefined behaviour, on which the build either copies
\* the stray bytes it finds there or aborts the process.
SetFromBinary4Vec(o) ==
    LET short == Overrun(IP_ADDRESS_OCTETS, Len(bin))
    IN  /\ Running
        /\ v4[o].life = "alive"
        /\ \/ /\ bin = <<>>
              /\ v4' = v4
              /\ res' = Result("SetFromBinary4(vector)", o, "invalid_argument")
           \/ /\ bin # <<>>
              /\ \E stray \in StrayBytes :
                    v4' = [v4 EXCEPT ![o].mem = MemcpyOctets(@, ReadBehind(bin, stray))]
              /\ res' = [Result("SetFromBinary4(vector)", o, "none") EXCEPT !.readOut = short]
           \/ /\ bin # <<>> /\ short > 0
              /\ v4' = v4
              /\ res' = Result("SetFromBinary4(vector)", o, "abort")
        /\ UNCHANGED <<endian, ptrSize, str, bin, v6>>

\* void IPv4Address::ToBinary(uint8_t *destDataPtr) const; res.bytes: what it
\* wrote through a non-null destDataPtr
ToBinary4Ptr(o, isNull) ==
    /\ Running
    /\ v4[o].life = "alive"
    /\ res' = IF isNull THEN Result("ToBinary4(nullptr)", o, "invalid_argument")
              ELSE [Result("ToBinary4(ptr)", o, "none") EXCEPT
                        !.bytes = [i \in 1..IP_ADDRESS_OCTETS |-> v4[o].mem[i]]]
    /\ UNCHANGED <<endian, ptrSize, str, bin, v6, v4>>

\* ToBinary4Vec with room reserved for the 4 bytes in place of a vector of 4
\* elements: the vector returned is empty
ToBinary4Vec_Reserve(o) ==
    /\ Running
    /\ v4[o].life = "alive"
    /\ res' = [Result("ToBinary4()", o, "none") EXCEPT !.writeOut = IP_ADDRESS_OCTETS]
    /\ UNCHANGED <<endian, ptrSize, str, bin, v6, v4>>

\* std::vector<uint8_t> IPv4Address::ToBinary() const; res.bytes: the elements of
\* the vector returned, a vector of 4 elements set to 0 and then to the octets
ToBinary4Vec(o) ==
    LET binaryAddress == [i \in 1..IP_ADDRESS_OCTETS |-> 0]
    IN  /\ Running
        /\ v4[o].life = "alive"
        /\ res' = [Result("ToBinary4()", o, "none") EXCEPT
                      !.bytes = [i \in 1..Len(binaryAddress) |->
                                    IF i <= IP_ADDRESS_OCTETS THEN v4[o].mem[i]
                                    ELSE binaryAddress[i]]]
        /\ UNCHANGED <<endian, ptrSize, str, bin, v6, v4>>

\* IPv4Address o(p): the copy constructor the compiler supplies, which copies
\* the member _octets
Copy4(o, p) ==
    /\ Running
    /\ v4[o].life = "undeclared" /\ v4[p].life = "alive"
    /\ v4' = [v4 EXCEPT ![o] = Alive4(MemcpyOctets(FreshMem(o), Octets(v4[p].mem)))]
    /\ res' = [Result("IPv4Address(copy)", o, "none") EXCEPT !.rhs = p]
    /\ UNCHANGED <<endian, ptrSize, str, bin, v6>>

\* Clear4 that sets IP_ADDRESS_OCTETS - 1 bytes to 0
Clear4_OneShort(o) ==
    /\ Running
    /\ v4[o].life = "alive"
    /\ v4' = [v4 EXCEPT ![o].mem = [i \in 1..IP_ADDRESS_MAX_LENGTH |->
                                       IF i < IP_ADDRESS_OCTETS THEN 0 ELSE @[i]]]
    /\ res' = Result("Clear4", o, "none")
    /\ UNCHANGED <<endian, ptrSize, str, bin, v6>>

\* void IPv4Address::Clear()
Clear4(o) ==
    /\ Running
    /\ v4[o].life = "alive"
    /\ v4' = [v4 EXCEPT ![o].mem = MemcpyOctets(@, [i \in 1..IP_ADDRESS_OCTETS |-> 0])]
    /\ res' = Result("Clear4", o, "none")
    /\ UNCHANGED <<endian, ptrSize, str, bin, v6>>

\* memcpy(dst, src, n) between the memories of two objects
MemcpyMem(dst, src, n) ==
    [i \in 1..IP_ADDRESS_MAX_LENGTH |-> IF i <= n THEN src[i] ELSE dst[i]]

\* the number of bytes operator= copies
AssignLength == IP_ADDRESS_MAX_LENGTH

\* IPv4Address &IPv4Address::operator=(const IPv4Address &cIp), as o = p.  The
\* memcpy of IP_ADDRESS_MAX_LENGTH bytes runs over both 4-byte arrays: undefined
\* behaviour, on which the build either copies the bytes behind the array of p
\* over the bytes behind the array of o or aborts the process.
Assign4(o, p) ==
    LET out == Overrun(AssignLength, IP_ADDRESS_OCTETS)
    IN  /\ Running
        /\ v4[o].life = "alive" /\ v4[p].life = "alive"
        /\ \/ /\ o = p
              /\ v4' = v4
              /\ res' = [Result("operator=4", o, "none") EXCEPT !.rhs = p]
           \/ /\ o # p
              /\ v4' = [v4 EXCEPT ![o].mem = MemcpyMem(@, v4[p].mem, AssignLength)]
              /\ res' = [Result("operator=4", o, "none") EXCEPT
                            !.rhs = p, !.readOut = out, !.writeOut = out]
           \/ /\ o # p /\ out > 0
              /\ v4' = v4
              /\ res' = [Result("operator=4", o, "abort") EXCEPT !.rhs = p]
        /\ UNCHANGED <<endian, ptrSize, str, bin, v6>>

-----------------------------------------------------------------------------
(* The texts handed to the IPv6 string constructors: up to MaxGroups6       *)
(* groups joined by ':', all of them "1" except at most two, which are      *)
(* drawn from GroupTexts6, or except one, which is a long run of digits.    *)
(* An empty last group is a trailing ':', and a std::string may hold a NUL  *)
(* among its characters.  And the texts in full form: 8                     *)
(* groups of 4 lowercase digits, all "0000" except at most two, and the     *)
(* address of the tests.                                                    *)

MaxGroups6 == 9

LongRun == UINT8_MOD + 1   \* a digit count that the 8-bit counter cannot hold

Filler6 == <<"1">>

GroupTexts6 ==
    { <<>>, <<"0">>, <<"d", "b", "8">>, <<"0", "d", "b", "8">>, <<"0", "D", "B", "8">>,
      <<"F", "f", "f", "F">>, <<"1", "2", "3", "4", "5">>, <<"g">>, <<"1", "_">>,
      <<"1", NUL, "g">> }

\* groups of 256 and of 257 hex digits
LongGroupTexts6 == { Rep("a", LongRun - 1), Rep("2", LongRun) }

FullFiller6 == <<"0", "0", "0", "0">>

FullGroupTexts6 ==
    { <<"0", "0", "0", "0">>, <<"2", "0", "0", "1">>, <<"0", "d", "b", "8">>,
      <<"f", "f", "0", "0">>, <<"0", "0", "4", "2">>, <<"a", "b", "c", "d">>,
      <<"e", "f", "9", "0">>, <<"f", "f", "f", "f">> }

\* "2001:0db8:0000:0000:0000:ff00:0042:8329"
TestText6 ==
    <<"2", "0", "0", "1", ":", "0", "d", "b", "8", ":", "0", "0", "0", "0", ":",
      "0", "0", "0", "0", ":", "0", "0", "0", "0", ":", "f", "f", "0", "0", ":",
      "0", "0", "4", "2", ":", "8", "3", "2", "9">>

RECURSIVE Join(_, _)
Join(parts, sep) ==
    IF Len(parts) = 0 THEN <<>>
    ELSE IF Len(parts) = 1 THEN parts[1]
    ELSE parts[1] \o <<sep>> \o Join(Tail(parts), sep)

\* n parts, all filler except part p = x and part q = y
Parts(n, p, x, q, y, filler) ==
    [i \in 1..n |-> IF i = p THEN x ELSE IF i = q THEN y ELSE filler]

InitText6 ==
    /\ endian = "little"
    /\ ptrSize = 8
    /\ bin = <<>>
    /\ \E n \in 1..MaxGroups6 : \E p \in 1..n :
         \/ \E q \in p..n : \E x \in GroupTexts6 : \E y \in GroupTexts6 :
               str = Join(Parts(n, p, x, q, y, Filler6), ASCII_COLON)
         \/ \E x \in LongGroupTexts6 :
               str = Join(Parts(n, p, x, p, x, Filler6), ASCII_COLON)
         \/ /\ n = IPV6_ADDRESS_GROUPS_NUMBER
            /\ \E q \in p..n : \E x \in FullGroupTexts6 : \E y \in FullGroupTexts6 :
                  str = Join(Parts(n, p, x, q, y, FullFiller6), ASCII_COLON)
         \/ n = 1 /\ str = TestText6
    /\ v6 = [o \in Objs |-> Undeclared6]
    /\ v4 = [o \in Objs |-> Undeclared4(o)]
    /\ res = NoResult

NextText6 ==
    \/ Ctor6Str("a")
    \/ \E isNull \in BOOLEAN : Ctor6CStr("a", isNull)
    \/ ToString6Op("a")

SpecText6 == InitText6 /\ [][NextText6]_vars

-----------------------------------------------------------------------------
(* The texts handed to the IPv4 string constructor: up to MaxSegs4 segments *)
(* joined by '.', all of them plain numbers except at most one.             *)

MaxSegs4 == 5

PlainSegs4 == { <<"0">>, <<"1">>, <<"1", "9", "2">> }

OddSegs4 ==
    { <<>>, <<"1", "0">>, <<"1", "6", "8">>, <<"2", "5", "5">>, <<"2", "5", "6">>, <<"0", "0", "7">>,
      <<"-", "1">>, <<"+", "7">>, <<" ", "5">>, <<"1", "a">>, <<"a">>, <<"3", "0", "0", "0">>,
      <<"2", "1", "4", "7", "4", "8", "3", "6", "4", "8">>,
      <<"-", "2", "1", "4", "7", "4", "8", "3", "6", "4", "8">> }

InitText4 ==
    /\ endian = "little"
    /\ ptrSize = 8
    /\ bin = <<>>
    /\ \E n \in 1..MaxSegs4 : \E f \in [1..n -> PlainSegs4] : \E p \in 1..n :
         \E x \in PlainSegs4 \cup OddSegs4 :
            str = Join([f EXCEPT ![p] = x], DOT)
    /\ v6 = [o \in Objs |-> Undeclared6]
    /\ v4 = [o \in Objs |-> Undeclared4(o)]
    /\ res = NoResult

NextText4 ==
    \/ Ctor4Str("a")
    \/ ToString4Op("a")
    \/ Stream4Op("a")
    \/ Ctor4StrReturned("b")

SpecText4 == InitText4 /\ [][NextText4]_vars

-----------------------------------------------------------------------------
(* The short texts handed to the string constructors of both classes: every *)
(* text of 0..MaxShortLen characters of ShortChars, the empty text and the  *)
(* texts that start with a NUL (empty as C strings) among them.             *)

MaxShortLen == 2

ShortChars == {"1", "a", ASCII_COLON, DOT, " ", NUL}

ShortTexts == UNION {[1..n -> ShortChars] : n \in 0..MaxShortLen}

InitShort ==
    /\ endian = "little"
    /\ ptrSize = 8
    /\ bin = <<>>
    /\ str \in ShortTexts
    /\ v6 = [o \in Objs |-> Undeclared6]
    /\ v4 = [o \in Objs |-> Undeclared4(o)]
    /\ res = NoResult

NextShort ==
    \/ Ctor6Str("a")
    \/ \E isNull \in BOOLEAN : Ctor6CStr("a", isNull)
    \/ Ctor4Str("a")

SpecShort == InitShort /\ [][NextShort]_vars

-----------------------------------------------------------------------------
(* One address of each class, built without a text or a buffer: the default *)
(* constructors, the constructor from 4 octets, and SetOctet and GetOctet   *)
(* with the indexes Indexes and the octet values OctetVals.                 *)

\* values of const uint8_t &cIndex: the 4 valid ones, the first invalid ones,
\* those around IP_ADDRESS_MAX_LENGTH and around the sign bit, and the largest
Indexes == (0..5) \cup {14, 15, 16, 127, 128, UINT8_MOD - 2, UINT8_MOD - 1}

OctetVals == {0, 1, 255}

InitOctet ==
    /\ endian = "little"
    /\ ptrSize = 8
    /\ str = <<>>
    /\ bin = <<>>
    /\ v6 = [o \in Objs |-> Undeclared6]
    /\ v4 = [o \in Objs |-> Undeclared4(o)]
    /\ res = NoResult

NextOctet ==
    \/ Ctor6Default("a")
    \/ Ctor4Default("a")
    \/ \E o1 \in OctetVals : \E o2 \in OctetVals : \E o3 \in OctetVals : \E o4 \in OctetVals :
          Ctor4Octets("a", o1, o2, o3, o4)
    \/ \E i \in Indexes : \E v \in OctetVals : SetOctet4("a", i, v)
    \/ \E i \in Indexes : GetOctet4("a", i)

SpecOctet == InitOctet /\ [][NextOctet]_vars

-----------------------------------------------------------------------------
(* Two IPv4 addresses parsed from the same text, the second one then        *)
(* changed octet by octet, and compared both ways.                          *)

EqTexts4 ==
    { <<"1", "9", "2", ".", "1", "6", "8", ".", "0", ".", "1">>,
      <<"1", "0", ".", "0", ".", "0", ".", "1">>,
      <<"0", ".", "0", ".", "0", ".", "0">> }

EqVals4 == {0, 1}

InitEq4 ==
    /\ endian = "little"
    /\ ptrSize = 8
    /\ str \in EqTexts4
    /\ bin = <<>>
    /\ v6 = [o \in Objs |-> Undeclared6]
    /\ v4 = [o \in Objs |-> Undeclared4(o)]
    /\ res = NoResult

NextEq4 ==
    \/ \E o \in Objs : Ctor4Str(o)
    \/ \E i \in 0..(IP_ADDRESS_OCTETS - 1) : \E v \in EqVals4 : SetOctet4("b", i, v)
    \/ \E o \in Objs : \E p \in Objs : Equal4Op(o, p)
    \/ \E o \in Objs : \E p \in Objs : NotEqual4Op(o, p)

SpecEq4 == InitEq4 /\ [][NextEq4]_vars

-----------------------------------------------------------------------------
(* The byte buffers handed to the IPv6 binary operations: the buffers of    *)
(* the tests and the zero buffer, cut or extended to 0..MaxBinLen6 bytes,   *)
(* and the 16-byte ones with one byte replaced.                             *)

MaxBinLen6 == 17

\* sizeof(const uint8_t *) on 32-bit and on 64-bit targets
PointerSizes == {4, 8}

ByteOrders == {"little", "big"}

TestBytesA == <<171, 205, 239, 1, 35, 69, 103, 137, 254, 220, 186, 152, 118, 84, 50, 16>>
TestBytesB == <<32, 1, 13, 184, 133, 163, 0, 1, 110, 157, 112, 152, 1, 0, 0, 0>>
ZeroBytes == [i \in 1..IPV6_ADDRESS_BYTE_LENGTH |-> 0]

\* the first n bytes of base, which is continued with bytes 255
Resize(base, n) == [i \in 1..n |-> IF i <= Len(base) THEN base[i] ELSE 255]

Bufs6 ==
    {Resize(b, n) : b \in {TestBytesA, TestBytesB, ZeroBytes}, n \in 0..MaxBinLen6}
        \cup {[TestBytesB EXCEPT ![k] = 255] : k \in 1..IPV6_ADDRESS_BYTE_LENGTH}

InitBin6 ==
    /\ endian \in ByteOrders
    /\ ptrSize \in PointerSizes
    /\ str = <<>>
    /\ bin \in Bufs6
    /\ v6 = [o \in Objs |-> Undeclared6]
    /\ v4 = [o \in Objs |-> Undeclared4(o)]
    /\ res = NoResult

NextBin6 ==
    \E o \in Objs :
        \/ Ctor6Default(o)
        \/ \E isNull \in BOOLEAN : Ctor6Ptr(o, isNull)
        \/ Ctor6Vec(o)
        \/ \E isNull \in BOOLEAN : SetFromBinary6Ptr(o, isNull)
        \/ SetFromBinary6Vec(o)
        \/ SetFromBinary6Returned(o)
        \/ \E isNull \in BOOLEAN : ToBinary6Ptr(o, isNull)
        \/ ToBinary6Vec(o)
        \/ ToString6Op(o)
        \/ Clear6(o)

SpecBin6 == InitBin6 /\ [][NextBin6]_vars

-----------------------------------------------------------------------------
(* The byte buffers handed to the IPv4 binary operations: every buffer of   *)
(* 0..MaxBinLen4 bytes over Bytes4.                                         *)

MaxBinLen4 == 5

Bytes4 == {0, 1, 192}

Bufs4 == UNION {[1..n -> Bytes4] : n \in 0..MaxBinLen4}

InitBin4 ==
    /\ endian = "little"
    /\ ptrSize = 8
    /\ str = <<>>
    /\ bin \in Bufs4
    /\ v6 = [o \in Objs |-> Undeclared6]
    /\ v4 = [o \in Objs |-> Undeclared4(o)]
    /\ res = NoResult

NextBin4 ==
    \E o \in Objs :
        \/ Ctor4Default(o)
        \/ \E isNull \in BOOLEAN : Ctor4Ptr(o, isNull)
        \/ Ctor4Vec(o)
        \/ \E isNull \in BOOLEAN : SetFromBinary4Ptr(o, isNull)
        \/ SetFromBinary4Vec(o)
        \/ \E isNull \in BOOLEAN : ToBinary4Ptr(o, isNull)
        \/ ToBinary4Vec(o)
        \/ Clear4(o)
        \/ \E p \in Objs : Assign4(o, p)

SpecBin4 == InitBin4 /\ [][NextBin4]_vars

-----------------------------------------------------------------------------
(* Two addresses of each class that are default-constructed or copied, set  *)
(* from a 16-byte buffer (an IPv4Address from its first 4 bytes), changed,  *)
(* cleared, assigned, compared and written to a destination.                *)

BothBufs ==
    { TestBytesB, [ZeroBytes EXCEPT ![1] = 1], [ZeroBytes EXCEPT ![IPV6_ADDRESS_BYTE_LENGTH] = 1] }

InitBoth ==
    /\ endian = "little"
    /\ ptrSize = 8
    /\ str = <<>>
    /\ bin \in BothBufs
    /\ v6 = [o \in Objs |-> Undeclared6]
    /\ v4 = [o \in Objs |-> Undeclared4(o)]
    /\ res = NoResult

NextBoth ==
    \E o \in Objs :
        \/ Ctor6Default(o)
        \/ Ctor4Default(o)
        \/ \E p \in Objs : Copy6(o, p)
        \/ \E p \in Objs : Copy4(o, p)
        \/ SetFromBinary6Ptr(o, FALSE)
        \/ SetFromBinary4Ptr(o, FALSE)
        \/ \E i \in {3, 4} : SetOctet4(o, i, 7)
        \/ Clear6(o)
        \/ Clear4(o)
        \/ \E isNull \in BOOLEAN : ToBinary6Ptr(o, isNull)
        \/ \E isNull \in BOOLEAN : ToBinary4Ptr(o, isNull)
        \/ \E p \in Objs : Equal6Op(o, p)
        \/ \E p \in Objs : NotEqual6Op(o, p)
        \/ \E p \in Objs : Equal4Op(o, p)
        \/ \E p \in Objs : Assign6(o, p)
        \/ \E p \in Objs : Assign4(o, p)

SpecBoth == InitBoth /\ [][NextBoth]_vars

-----------------------------------------------------------------------------
(* What the texts mean, stated without the parser *)

\* index of the first sep in s at or after i, or Len(s) + 1
FirstAt(s, sep, i) ==
    LET at == {k \in i..Len(s) : s[k] = sep} \cup {Len(s) + 1}
    IN  CHOOSE k \in at : \A j \in at : k <= j

\* the parts of s between the separators: a text with k separators has k + 1 parts
RECURSIVE Split(_, _)
Split(s, sep) ==
    LET k == FirstAt(s, sep, 1)
    IN  IF k > Len(s) THEN <<s>>
        ELSE <<SubSeq(s, 1, k - 1)>> \o Split(SubSeq(s, k + 1, Len(s)), sep)

HexTable ==
    [c \in {"0", "1", "2", "3", "4", "5", "6", "7", "8", "9",
            "a", "b", "c", "d", "e", "f", "A", "B", "C", "D", "E", "F"} |->
        CASE c = "0" -> 0 [] c = "1" -> 1 [] c = "2" -> 2 [] c = "3" -> 3
          [] c = "4" -> 4 [] c = "5" -> 5 [] c = "6" -> 6 [] c = "7" -> 7
          [] c = "8" -> 8 [] c = "9" -> 9
          [] c \in {"a", "A"} -> 10 [] c \in {"b", "B"} -> 11 [] c \in {"c", "C"} -> 12
          [] c \in {"d", "D"} -> 13 [] c \in {"e", "E"} -> 14 [] c \in {"f", "F"} -> 15]

IsHexText(t) == \A i \in 1..Len(t) : t[i] \in DOMAIN HexTable

\* the number a text of at most 4 hex digits denotes, most significant digit first
RECURSIVE HexValueOf(_)
HexValueOf(t) ==
    IF Len(t) = 0 THEN 0
    ELSE 16 * HexValueOf(SubSeq(t, 1, Len(t) - 1)) + HexTable[t[Len(t)]]

Groups6 == Split(str, ASCII_COLON)

\* exactly 8 groups of 1 to 4 hex digits each
WellFormed6 ==
    /\ Len(Groups6) = 8
    /\ \A i \in 1..8 : Len(Groups6[i]) \in 1..4 /\ IsHexText(Groups6[i])

ByStringCtor6 == res.op \in {"IPv6Address(string)", "IPv6Address(char*)"}

-----------------------------------------------------------------------------
(* Claims about the IPv6 string constructor and ToString *)

\* C1 (as claimed): for every non-empty text, the IPv6 string constructor throws
\* invalid_argument unless the text is exactly 8 colon-separated groups; any
\* character after the 8th group, a single ':' included, makes a 9th part.
C1_AsClaimed ==
    (ByStringCtor6 /\ str # <<>> /\ Len(Groups6) # 8) => res.err = "invalid_argument"

\* C2 (as claimed): the IPv6 string constructor throws invalid_argument whenever
\* some group of the text has 0 digits or more than 4 digits, however many.
C2_AsClaimed ==
    (ByStringCtor6 /\ \E i \in 1..Len(Groups6) : Len(Groups6[i]) = 0 \/ Len(Groups6[i]) > 4)
        => res.err = "invalid_argument"

\* C9: for every text of exactly 8 colon-separated groups of 1 to 4 hex digits the
\* IPv6 string constructor succeeds, and group i holds the hexadecimal value of the
\* i-th group of the text, whatever its letter case and leading zeros.
C9_ParseValues ==
    (ByStringCtor6 /\ WellFormed6) =>
        /\ res.err = "none"
        /\ v6[res.o].life = "alive"
        /\ \A i \in 1..8 : v6[res.o].g[i] = HexValueOf(Groups6[i])

C9_Witness ==
    /\ ByStringCtor6 /\ WellFormed6 /\ res.err = "none"
    /\ \E i \in 1..8 : \E j \in 1..8 :
         /\ Groups6[i] = <<"d", "b", "8">> /\ Groups6[j] = <<"0", "D", "B", "8">>
         /\ v6[res.o].g[i] = 3512 /\ v6[res.o].g[j] = 3512

LowerHexChars ==
    {"0", "1", "2", "3", "4", "5", "6", "7", "8", "9", "a", "b", "c", "d", "e", "f"}

FullLower6 ==
    /\ Len(Groups6) = 8
    /\ \A i \in 1..8 : /\ Len(Groups6[i]) = 4
                       /\ \A k \in 1..4 : Groups6[i][k] \in LowerHexChars

\* C11: for every text s of 8 colon-separated groups of exactly 4 lowercase hex
\* digits, ToString() of the IPv6Address constructed from s returns s unchanged.
C11_FullFormRoundTrip ==
    (res.op = "ToString6" /\ FullLower6) =>
        /\ v6[res.o].life = "alive"
        /\ res.text = str

C11_Witness ==
    /\ res.op = "ToString6" /\ FullLower6
    /\ str = TestText6
    /\ res.text = TestText6

\* the text a string constructor was given: all of str as a std::string, the
\* characters before the first NUL as a C string
ArgText6 == IF res.op = "IPv6Address(char*)" THEN SubSeq(str, 1, StrLen(str)) ELSE str

ArgGroups6 == Split(ArgText6, ASCII_COLON)

\* C16 (as claimed): the IPv6 string constructor throws invalid_argument whenever
\* one of the first 8 colon-separated groups of the text holds a character that
\* is not one of 0-9, a-f, A-F.
C16_AsClaimed ==
    (ByStringCtor6 /\ \E i \in 1..Len(ArgGroups6) : i <= 8 /\ ~IsHexText(ArgGroups6[i]))
        => res.err = "invalid_argument"

-----------------------------------------------------------------------------
(* Claims about the IPv4 string constructor *)

DecTable ==
    [c \in {"0", "1", "2", "3", "4", "5", "6", "7", "8", "9"} |->
        CASE c = "0" -> 0 [] c = "1" -> 1 [] c = "2" -> 2 [] c = "3" -> 3
          [] c = "4" -> 4 [] c = "5" -> 5 [] c = "6" -> 6 [] c = "7" -> 7
          [] c = "8" -> 8 [] c = "9" -> 9]

\* the number a text of at most 9 decimal digits denotes
RECURSIVE DecValueOf(_)
DecValueOf(t) ==
    IF Len(t) = 0 THEN 0
    ELSE 10 * DecValueOf(SubSeq(t, 1, Len(t) - 1)) + DecTable[t[Len(t)]]

\* t is a plain decimal integer in 0..255: digits only, at least one
PlainOctetText(t) ==
    /\ Len(t) \in 1..9
    /\ \A i \in 1..Len(t) : t[i] \in DOMAIN DecTable
    /\ DecValueOf(t) <= 255

Segs4 == Split(str, DOT)

\* C7 (as claimed): the IPv4 string constructor fails with an error whenever some
\* '.'-separated segment is not a plain decimal integer in 0..255.
C7_AsClaimed ==
    (res.op = "IPv4Address(string)" /\ \E i \in 1..Len(Segs4) : ~PlainOctetText(Segs4[i]))
        => res.err # "none"

\* C8 (as claimed): whenever the IPv4 string constructor succeeds, the text had
\* exactly 4 segments and octet i holds the decimal value of the i-th segment.
C8_AsClaimed ==
    (res.op = "IPv4Address(string)" /\ res.err = "none") =>
        /\ Len(Segs4) = 4
        /\ \A i \in 1..4 : /\ PlainOctetText(Segs4[i])
                           /\ v4[res.o].mem[i] = DecValueOf(Segs4[i])

\* C17: constructing an IPv4Address or an IPv6Address from an empty std::string,
\* or an IPv6Address from an empty or a null C string, throws invalid_argument,
\* and no address is ever constructed from the empty text.
C17_EmptyText ==
    /\ (res.op \in {"IPv4Address(string)", "IPv6Address(string)"} /\ str = <<>>)
            => res.err = "invalid_argument"
    /\ (res.op = "IPv6Address(char*)" /\ StrLen(str) = 0) => res.err = "invalid_argument"
    /\ res.op = "IPv6Address(nullptr)" => res.err = "invalid_argument"
    /\ str = <<>> => \A o \in Objs : v4[o].life # "alive" /\ v6[o].life # "alive"

\* both classes have refused the empty text
C17_Witness ==
    /\ str = <<>>
    /\ v4["a"].life = "thrown" /\ v6["a"].life = "thrown"
    /\ res.op = "IPv4Address(string)" /\ res.err = "invalid_argument"

\* t is n written in decimal without leading zeros
CanonicalDec(t, n) ==
    /\ Len(t) \in 1..3
    /\ \A k \in 1..Len(t) : t[k] \in DOMAIN DecTable
    /\ Len(t) > 1 => t[1] # "0"
    /\ DecValueOf(t) = n

\* C18: ToString() of an IPv4Address is 4 decimal numbers joined by 3 '.', the
\* i-th being octet i in decimal without leading zeros, also for the all-zero
\* address and for a first octet 0; operator<< writes the same text.
C18_ToStringShape ==
    res.op \in {"ToString4", "operator<<4"} =>
        LET parts == Split(res.text, DOT)
        IN  /\ Len(parts) = 4
            /\ \A i \in 1..4 : CanonicalDec(parts[i], v4[res.o].mem[i])

\* operator<< has written "0.10.192.1" or the like: a first octet 0 and octets
\* of 1, 2 and 3 digits
C18_Witness ==
    /\ res.op = "operator<<4"
    /\ v4[res.o].mem[1] = 0
    /\ \E i \in 2..4 : v4[res.o].mem[i] = 10
    /\ \E i \in 2..4 : v4[res.o].mem[i] = 192
    /\ Len(res.text) = 10

\* str is "a.b.c.d" for 4 octets in 0..255 written without leading zeros
CanonicalText4 ==
    /\ Len(Segs4) = 4
    /\ \A i \in 1..4 : \E n \in 0..255 : CanonicalDec(Segs4[i], n)

\* C19: for 4 octets a, b, c, d in 0..255, ToString() of the IPv4Address
\* constructed from the text "a.b.c.d" returns that text, and the address
\* constructed from the returned text is equal (operator==) to the first one.
C19_TextRoundTrip ==
    /\ (res.op = "ToString4" /\ CanonicalText4) => res.text = str
    /\ (res.op = "IPv4Address(ToString4())" /\ CanonicalText4) =>
            /\ res.err = "none"
            /\ v4[res.o].life = "alive" /\ v4[res.rhs].life = "alive"
            /\ Equal4(v4[res.o].mem, v4[res.rhs].mem)
            /\ \A i \in 1..4 : v4[res.o].mem[i] = DecValueOf(Segs4[i])

\* the round trip of a text with a first octet 0 and an octet 255
C19_Witness ==
    /\ res.op = "IPv4Address(ToString4())" /\ res.err = "none"
    /\ CanonicalText4
    /\ Segs4[1] = <<"0">>
    /\ \E i \in 2..4 : Segs4[i] = <<"2", "5", "5">> /\ v4[res.o].mem[i] = 255

-----------------------------------------------------------------------------
(* Claims about the IPv6 binary operations *)

\* C3 (as claimed): for a non-null pointer to a 16-byte buffer b the constructor
\* IPv6Address(const uint8_t *) throws nothing, and ToBinary(dest) on the object
\* then writes exactly the 16 bytes of b in their order.
C3_AsClaimed ==
    (res.op = "IPv6Address(ptr)" /\ Len(bin) = 16) =>
        /\ res.err = "none"
        /\ v6[res.o].life = "alive"
        /\ ToBinaryLoop(v6[res.o].g, 0, endian) = bin

\* C4 (as claimed): the vector returned by ToBinary() has exactly 16 elements,
\* which are the two bytes of each of the 8 groups, in group order.
C4_AsClaimed ==
    (res.op = "ToBinary6()" /\ res.err = "none") =>
        /\ Len(res.bytes) = 16
        /\ \A i \in 1..8 :
             LET group == v6[res.o].g[i]
             IN  {res.bytes[2 * i - 1], res.bytes[2 * i]} = {group % 256, group \div 256}

C12_Step ==
    (res.op = "Clear6" /\ res'.op = "ToString6" /\ res'.o = res.o)
        => res'.text = <<":", ":">>

\* C12 (as claimed): ToString() called on an IPv6Address right after Clear()
\* returns the text "::".
C12_AsClaimed == [][C12_Step]_vars

\* C13 (as claimed): from a 16-byte vector b, SetFromBinary(b) and the vector
\* constructor set group i to 256 * b[2i] + b[2i+1] (i from 0): the first byte of
\* each pair is the high-order byte.
C13_AsClaimed ==
    (res.op \in {"SetFromBinary6(vector)", "IPv6Address(vector)"} /\ Len(bin) = 16) =>
        /\ res.err = "none"
        /\ \A i \in 0..7 : v6[res.o].g[i + 1] = 256 * bin[2 * i + 1] + bin[2 * i + 2]

\* C14 (as claimed): with x constructed from a 16-byte vector b, SetFromBinary on
\* a second address y of the vector returned by x.ToBinary() throws nothing and
\* makes y equal to x.
C14_AsClaimed ==
    (/\ res.op = "SetFromBinary6(ToBinary6())"
     /\ res.o # res.rhs
     /\ Len(bin) = 16
     /\ v6[res.rhs].g = MemcpyGroups(bin, endian)) =>
        /\ res.err = "none"
        /\ Equal6(v6[res.o].g, v6[res.rhs].g)

C15_Step ==
    /\ res'.op \in {"IPv6Address(nullptr)", "SetFromBinary6(nullptr)"}
            => res'.err = "invalid_argument"
    /\ (res'.op \in {"IPv6Address(vector)", "SetFromBinary6(vector)"} /\ Len(bin) # 16)
            => res'.err = "invalid_argument"
    /\ (res'.op \in {"IPv6Address(nullptr)", "IPv6Address(vector)"} /\ res'.err # "none")
            => v6'[res'.o].life = "thrown"
    /\ (res'.op \in {"SetFromBinary6(nullptr)", "SetFromBinary6(vector)"} /\ res'.err # "none")
            => v6'[res'.o] = v6[res'.o]

\* C15: the IPv6 pointer constructor and SetFromBinary(pointer) throw
\* invalid_argument for a null pointer, the vector constructor and
\* SetFromBinary(vector) throw it for every vector whose size is not 16, the empty
\* one included, and a failing SetFromBinary leaves all 8 groups as they were.
C15_BinaryErrors == [][C15_Step]_vars

\* SetFromBinary has refused a vector of 17 bytes on an address whose groups are
\* not all zero
C15_Witness ==
    /\ res.op = "SetFromBinary6(vector)" /\ res.err = "invalid_argument"
    /\ Len(bin) = IPV6_ADDRESS_BYTE_LENGTH + 1
    /\ v6[res.o].life = "alive" /\ v6[res.o].g # ZeroGroups

-----------------------------------------------------------------------------
(* Claims about the IPv4 binary operations and the assignment *)

C5_Step ==
    /\ (res'.op \in {"IPv4Address(vector)", "SetFromBinary4(vector)"} /\ Len(bin) # 4)
            => res'.err = "invalid_argument"
    /\ res'.op \in {"IPv4Address(nullptr)", "SetFromBinary4(nullptr)"}
            => res'.err = "invalid_argument"
    /\ (res'.op \in {"SetFromBinary4(vector)", "SetFromBinary4(nullptr)"} /\ res'.err # "none")
            => Octets(v4'[res'.o].mem) = Octets(v4[res'.o].mem)
    /\ res'.op = "SetFromBinary4(vector)" => res'.readOut = 0

\* C5 (as claimed): the IPv4 vector constructor and SetFromBinary(vector) throw
\* invalid_argument for every vector whose size is not 4, both pointer forms throw
\* invalid_argument for a null pointer, a failing SetFromBinary leaves the 4
\* octets as they were, and SetFromBinary reads no byte outside the vector.
C5_AsClaimed == [][C5_Step]_vars

C6_Step ==
    res'.op = "operator=4" =>
        LET o == res'.o
            p == res'.rhs
        IN  /\ res'.err = "none"
            /\ Octets(v4'[o].mem) = Octets(v4[p].mem)
            /\ Octets(v4'[p].mem) = Octets(v4[p].mem)
            /\ res'.readOut = 0 /\ res'.writeOut = 0
            /\ \A i \in (IP_ADDRESS_OCTETS + 1)..IP_ADDRESS_MAX_LENGTH :
                  v4'[o].mem[i] = v4[o].mem[i]

\* C6 (as claimed): after a = b the 4 octets of a equal those of b, b is unchanged,
\* and exactly 4 bytes were copied: no byte outside the octets of a was written
\* and no byte outside the octets of b was read.
C6_AsClaimed == [][C6_Step]_vars

\* C20: an IPv4Address built from a 4-byte buffer b, by the vector constructor,
\* the pointer constructor or either SetFromBinary, has octet i equal to b[i],
\* and both forms of ToBinary give exactly the 4 octets of the address, in order.
C20_BinaryOrder ==
    /\ (/\ res.op \in {"IPv4Address(vector)", "IPv4Address(ptr)",
                       "SetFromBinary4(vector)", "SetFromBinary4(ptr)"}
        /\ Len(bin) = 4) =>
            /\ res.err = "none"
            /\ v4[res.o].life = "alive"
            /\ \A i \in 1..4 : v4[res.o].mem[i] = bin[i]
    /\ res.op \in {"ToBinary4(ptr)", "ToBinary4()"} =>
            /\ res.err = "none"
            /\ Len(res.bytes) = 4
            /\ \A i \in 1..4 : res.bytes[i] = v4[res.o].mem[i]

\* ToBinary() has returned the 4 bytes 192, 1, 0, 1 of the buffer that the
\* address was built from
C20_Witness ==
    /\ res.op = "ToBinary4()"
    /\ bin = <<192, 1, 0, 1>>
    /\ res.bytes = bin
    /\ Octets(v4[res.o].mem) = bin

-----------------------------------------------------------------------------
(* Claims about the octets of an IPv4Address and the default constructors *)

C21_Step ==
    /\ (res'.op \in {"GetOctet", "SetOctet"} /\ res'.index \in 4..255)
            => res'.err = "out_of_range"
    /\ (res'.op \in {"GetOctet", "SetOctet"} /\ res'.index \in 0..3)
            => res'.err = "none"
    /\ (res'.op = "SetOctet" /\ res'.err # "none") => v4' = v4

\* C21: for every index in 4..255 GetOctet and SetOctet throw out_of_range, and a
\* failing SetOctet leaves the 4 octets (and all else) as they were; for an index
\* in 0..3 neither throws.
C21_IndexRange == [][C21_Step]_vars

\* SetOctet(255, 1) has thrown on an address that holds 255.1.0.255
C21_Witness ==
    /\ res.op = "SetOctet" /\ res.index = 255 /\ res.value = 1
    /\ res.err = "out_of_range"
    /\ Octets(v4[res.o].mem) = <<255, 1, 0, 255>>

C22_Step ==
    /\ (res'.op = "SetOctet" /\ res'.index \in 0..3) =>
            /\ v4'[res'.o].mem[res'.index + 1] = res'.value
            /\ \A j \in 1..IP_ADDRESS_MAX_LENGTH :
                  j # res'.index + 1 => v4'[res'.o].mem[j] = v4[res'.o].mem[j]
    /\ (res'.op = "GetOctet" /\ res'.index \in 0..3) =>
            /\ res'.value = v4[res'.o].mem[res'.index + 1]
            /\ v4' = v4

\* C22: SetOctet(i, v) with i in 0..3 makes octet i hold v and changes no other
\* octet, and GetOctet(j) returns octet j and changes nothing: so GetOctet(j)
\* returns the value of the last SetOctet on index j.
C22_SetThenGet == [][C22_Step]_vars

\* GetOctet(3) has returned 255 from an address that holds 1.0.1.255
C22_Witness ==
    /\ res.op = "GetOctet" /\ res.index = 3 /\ res.value = 255
    /\ Octets(v4[res.o].mem) = <<1, 0, 1, 255>>

\* C26: a default-constructed IPv4Address has all 4 octets 0, a
\* default-constructed IPv6Address has all 8 groups 0, and
\* IPv4Address(o1, o2, o3, o4) has octet i equal to its i-th argument.
C26_Constructed ==
    /\ res.op = "IPv4Address()" =>
            /\ v4[res.o].life = "alive"
            /\ \A i \in 1..4 : v4[res.o].mem[i] = 0
    /\ res.op = "IPv6Address()" =>
            /\ v6[res.o].life = "alive"
            /\ \A i \in 1..8 : v6[res.o].g[i] = 0
    /\ res.op = "IPv4Address(octets)" =>
            /\ res.err = "none" /\ v4[res.o].life = "alive"
            /\ \A i \in 1..4 : v4[res.o].mem[i] = res.bytes[i]

\* IPv4Address(0, 255, 1, 255) next to a default-constructed IPv6Address
C26_Witness ==
    /\ res.op = "IPv4Address(octets)" /\ res.bytes = <<0, 255, 1, 255>>
    /\ Octets(v4[res.o].mem) = <<0, 255, 1, 255>>
    /\ v6["a"].life = "alive" /\ v6["a"].g = ZeroGroups

\* C28 (as claimed): whatever the number of '.' in the text, the IPv4 string
\* constructor stores only into the octets 0..3: the segment counter is never 4
\* or more at a store.
C28_AsClaimed ==
    res.op = "IPv4Address(string)" =>
        /\ res.writeOut = 0
        /\ res.err # "abort"
        /\ ~StoresOutside(ParseIpV4(str).stores)

-----------------------------------------------------------------------------
(* Claims about comparison, Clear, ToBinary to a pointer, and copies *)

\* C23: a == b on IPv4Address values is true exactly when the 4 octets of a are
\* those of b in the same order, a != b is the negation of it, and two
\* addresses parsed one after the other from the same text are equal.
C23_Equality4 ==
    /\ res.op = "operator==4" =>
            (res.truth <=> Octets(v4[res.o].mem) = Octets(v4[res.rhs].mem))
    /\ res.op = "operator!=4" =>
            (res.truth <=> Octets(v4[res.o].mem) # Octets(v4[res.rhs].mem))
    /\ (res.op = "IPv4Address(string)" /\ res.err = "none" /\ res.o = "b"
            /\ v4["a"].life = "alive") =>
            /\ Equal4(v4["a"].mem, v4["b"].mem) /\ Equal4(v4["b"].mem, v4["a"].mem)
            /\ ~NotEqual4(v4["a"].mem, v4["b"].mem)

\* a == b has returned true for two addresses parsed from "192.168.0.1"
C23_Witness ==
    /\ res.op = "operator==4" /\ res.o = "a" /\ res.rhs = "b" /\ res.truth
    /\ Octets(v4["a"].mem) = <<192, 168, 0, 1>>

\* C24: a == b on IPv6Address values is true exactly when the 8 groups of a are
\* those of b in the same order (a difference in the last group alone makes them
\* unequal), a != b is the negation of it, and a copy is equal to its original.
C24_Equality6 ==
    /\ res.op = "operator==6" => (res.truth <=> v6[res.o].g = v6[res.rhs].g)
    /\ res.op = "operator!=6" => (res.truth <=> v6[res.o].g # v6[res.rhs].g)
    /\ res.op \in {"IPv6Address(copy)", "operator=6"} =>
            /\ Equal6(v6[res.o].g, v6[res.rhs].g)
            /\ ~NotEqual6(v6[res.o].g, v6[res.rhs].g)

\* a == b has returned false for addresses that differ in the last group only
C24_Witness ==
    /\ res.op = "operator==6" /\ res.o # res.rhs /\ ~res.truth
    /\ SubSeq(v6[res.o].g, 1, 7) = SubSeq(v6[res.rhs].g, 1, 7)
    /\ v6[res.o].g[8] # v6[res.rhs].g[8]

C25_Step ==
    /\ res'.op = "Clear4" =>
            /\ res'.err = "none"
            /\ Octets(v4'[res'.o].mem) = <<0, 0, 0, 0>>
            /\ Equal4(v4'[res'.o].mem, FreshMem(res'.o))
            /\ Octets(v4[res'.o].mem) = <<0, 0, 0, 0>> => v4' = v4
            /\ \A p \in Objs \ {res'.o} : v4'[p] = v4[p]
            /\ v6' = v6
    /\ res'.op = "Clear6" =>
            /\ res'.err = "none"
            /\ v6'[res'.o].g = <<0, 0, 0, 0, 0, 0, 0, 0>>
            /\ Equal6(v6'[res'.o].g, ZeroGroups)
            /\ v6[res'.o].g = <<0, 0, 0, 0, 0, 0, 0, 0>> => v6' = v6
            /\ \A p \in Objs \ {res'.o} : v6'[p] = v6[p]
            /\ v4' = v4

\* C25: from any state Clear() throws nothing and sets the 4 octets of an
\* IPv4Address, or the 8 groups of an IPv6Address, to 0, which is the value of a
\* default-constructed address; Clear() of an all-zero address changes nothing;
\* no other address is changed.
C25_Clear == [][C25_Step]_vars

\* both addresses a have been cleared after they held bytes of the buffer, and
\* they equal the default-constructed addresses b
C25_Witness ==
    /\ res.op = "Clear4" /\ res.o = "a"
    /\ bin = TestBytesB
    /\ Octets(v4["a"].mem) = <<0, 0, 0, 0>> /\ v4["a"].mem[5] = Behind["b"]
    /\ v4["b"].life = "alive" /\ Equal4(v4["a"].mem, v4["b"].mem)
    /\ v6["a"].life = "alive" /\ v6["a"].g = ZeroGroups
    /\ v6["b"].life = "alive" /\ v6["b"].g # ZeroGroups

C27_Step ==
    /\ res'.op \in {"ToBinary6(nullptr)", "ToBinary4(nullptr)"} =>
            /\ res'.err = "invalid_argument"
            /\ res'.bytes = <<>> /\ res'.writeOut = 0
            /\ v6' = v6 /\ v4' = v4
    /\ res'.op = "ToBinary6(ptr)" =>
            /\ res'.err = "none"
            /\ Len(res'.bytes) = IPV6_ADDRESS_BYTE_LENGTH /\ res'.writeOut = 0
            /\ v6' = v6 /\ v4' = v4
    /\ res'.op = "ToBinary4(ptr)" =>
            /\ res'.err = "none"
            /\ res'.bytes = Octets(v4[res'.o].mem) /\ res'.writeOut = 0
            /\ v6' = v6 /\ v4' = v4

\* C27: ToBinary(destDataPtr) with a null destDataPtr throws
\* std::invalid_argument, writes nothing and leaves every address as it was; with
\* a destDataPtr that is not null it throws nothing, writes the 16 or the 4 bytes
\* of the address into the room it points to, and leaves every address as it was.
C27_ToBinaryPtr == [][C27_Step]_vars

\* ToBinary(nullptr) has thrown on an IPv6Address that holds the groups of the
\* buffer, next to an IPv4Address that holds its octets
C27_Witness ==
    /\ res.op = "ToBinary6(nullptr)" /\ res.err = "invalid_argument"
    /\ bin = TestBytesB
    /\ v6[res.o].g = SetFromBinaryLoop(ZeroGroups, bin, 0, endian)
    /\ v6[res.o].g # ZeroGroups
    /\ v4[res.o].life = "alive" /\ Octets(v4[res.o].mem) = SubSeq(bin, 1, IP_ADDRESS_OCTETS)

C29_Step ==
    /\ res'.op \in {"SetOctet", "SetFromBinary4(ptr)", "Clear4"} =>
            /\ \A p \in Objs \ {res'.o} : v4'[p] = v4[p]
            /\ v6' = v6
    /\ res'.op \in {"SetFromBinary6(ptr)", "Clear6"} =>
            /\ \A p \in Objs \ {res'.o} : v6'[p] = v6[p]
            /\ v4' = v4
    /\ res'.op \in {"IPv4Address(copy)", "operator=4"} /\ res'.err = "none" =>
            /\ Octets(v4'[res'.o].mem) = Octets(v4[res'.rhs].mem)
            /\ v4'[res'.rhs].life = "alive"
            /\ Octets(v4'[res'.rhs].mem) = Octets(v4[res'.rhs].mem)
            /\ res'.rhs = res'.o => v4' = v4
            /\ v6' = v6
    /\ res'.op \in {"IPv6Address(copy)", "operator=6"} =>
            /\ v6'[res'.o].g = v6[res'.rhs].g
            /\ v6'[res'.rhs] = v6[res'.rhs]
            /\ res'.rhs = res'.o => v6' = v6
            /\ v4' = v4

\* C29: a = b and the copy construction of a from b give a the octets, or the
\* groups, of b and leave those of b as they were; a = a leaves a as it was; and
\* every SetOctet, SetFromBinary and Clear on one address leaves every other
\* address as it was, the one it was copied from or to included.
C29_Independent == [][C29_Step]_vars

\* a = b has copied the octets of the buffer from b, and the bytes behind them,
\* and then SetOctet(3, 7) on a has left b with the octets of the buffer
C29_Witness ==
    /\ res.op = "SetOctet" /\ res.o = "a" /\ res.err = "none" /\ res.index = 3
    /\ v4["a"].mem[IP_ADDRESS_OCTETS + 1] = Behind["b"]
    /\ v4["b"].life = "alive"
    /\ Octets(v4["b"].mem) = SubSeq(bin, 1, IP_ADDRESS_OCTETS)
    /\ Octets(v4["b"].mem)[4] # 7
    /\ Octets(v4["a"].mem) = [Octets(v4["b"].mem) EXCEPT ![4] = 7]

-----------------------------------------------------------------------------
(* Claims about the scan of ParseIpV6 *)

\* the number of ':' among the characters of s before index token
ColonsBefore(s, token) ==
    Cardinality({i \in 1..(token - 1) : CharAt(s, i) = ASCII_COLON})

\* C30: on every text ParseIpV6 comes to an end, by returning or by throwing,
\* with its pointer at or before the NUL that ends the text, so that no
\* character behind that NUL is read; every store into _ipv6Address is at a group
\* index 0..7; and the scan only moves forward: each group stored but the first
\* lies behind a ':' of its own that the pointer has passed.
C30_ScanBounded ==
    LET r == ParseIpV6(str)
    IN  /\ r.err \in BOOLEAN
        /\ r.token \in 1..(StrLen(str) + 1)
        /\ r.groupIndex \in 0..IPV6_ADDRESS_GROUPS_NUMBER
        /\ r.groupIndex <= ColonsBefore(str, r.token) + 1
        /\ ~r.err => r.groupIndex = IPV6_ADDRESS_GROUPS_NUMBER /\ r.token = StrLen(str) + 1
        /\ res.op = "IPv6Address(char*)" =>
                (res.err = "none" <=> StrLen(str) > 0 /\ ~r.err)

\* the constructor has thrown on a text of 9 groups: the scan stored 8 groups and
\* stopped on the first character of the ninth, before the NUL
C30_Witness ==
    LET r == ParseIpV6(str)
    IN  /\ res.op = "IPv6Address(char*)" /\ res.err = "invalid_argument"
        /\ r.err /\ r.groupIndex = IPV6_ADDRESS_GROUPS_NUMBER
        /\ ColonsBefore(str, r.token) = IPV6_ADDRESS_GROUPS_NUMBER
        /\ r.token <= StrLen(str) /\ StrLen(str) = Len(str)

=============================================================================
